---- MODULE Spec2Model ----
(***************************************************************************)
(* Word-problems toolkit (python_examples/wordproblems.py).                *)
(*                                                                         *)
(* Strings are sequences of code points (Python's ord), so that string     *)
(* comparison, case mapping and ord(c) - ord('a') are computed the way the *)
(* interpreter computes them.  Python indices are 0-based; a Python index  *)
(* j addresses element j + 1 of the TLA+ sequence.                         *)
(*                                                                         *)
(* Each function of the toolkit has a specification of its own (SpecLS,    *)
(* SpecWC, ...): its Init draws the arguments of one call from bounded     *)
(* sets, its actions are the steps of that call, and the variables of the  *)
(* other functions stay idle.                                              *)
(***************************************************************************)
EXTENDS Integers, Sequences, FiniteSets, TLC

\* ord() of the characters the model uses.
Ord ==
    [a |-> 97, b |-> 98, c |-> 99, d |-> 100, e |-> 101, h |-> 104,
     i |-> 105, k |-> 107, l |-> 108, o |-> 111, p |-> 112, r |-> 114,
     u |-> 117, x |-> 120, y |-> 121, z |-> 122,
     I |-> 73, O |-> 79, U |-> 85, newline |-> 10,
     A |-> 65, B |-> 66, D |-> 68, E |-> 69, G |-> 71,
     space |-> 32, digit0 |-> 48, lbracket |-> 91, backtick |-> 96,
     lbrace |-> 123]

Min(S) == CHOOSE m \in S : \A n \in S : m <= n

Max(S) == CHOOSE m \in S : \A n \in S : m >= n

\* All sequences over S of length lo..hi.
SeqsOf(S, lo, hi) == UNION {[1..n -> S] : n \in lo..hi}

Range(s) == {s[j] : j \in DOMAIN s}

\* Python slice s[from:] for 0 <= from.
DropFirst(s, from) == IF from >= Len(s) THEN <<>> ELSE SubSeq(s, from + 1, Len(s))

\* Python slice s[from:from + n] for 0 <= from, 0 <= n.
Slice(s, from, n) == SubSeq(s, from + 1, Min({Len(s), from + n}))

Distinct(s) == Cardinality(Range(s))

\* Python's str comparison s < t: by code point, a proper prefix first.
StrLess(s, t) ==
    LET n == Min({Len(s), Len(t)})
        diff == {j \in 1..n : s[j] # t[j]}
    IN  IF diff = {} THEN Len(s) < Len(t) ELSE s[Min(diff)] < t[Min(diff)]

\* str.startswith
StartsWith(s, p) == Len(p) <= Len(s) /\ SubSeq(s, 1, Len(p)) = p

IsSorted(ws) == \A j \in 1..Len(ws) - 1 : ~StrLess(ws[j + 1], ws[j])

\* The elements of a finite set of strings in ascending order.
RECURSIVE SortedSeq(_)
SortedSeq(S) ==
    IF S = {} THEN <<>>
    ELSE LET least == CHOOSE s \in S : \A t \in S : ~StrLess(t, s)
         IN  <<least>> \o SortedSeq(S \ {least})

VARIABLES
    \* longest_substring_with_k_chars
    text, k, i, last_seen, len_, max_, maxpos, lsPc, lsResult,
    \* word_chain
    words, first, wcK, wcLen, chain, stack, wcPc, wcResult,
    \* prime_code
    pcU, pcV, pcCodeU, pcCodeV, pcPc,
    \* all_anagrams
    anWords, anI, codes, anPc,
    \* rotate_consonants
    rcText, rcOff, rcOut, rcBack, rcPc,
    \* the word classifiers: semordnilap, rotodromes, almost_palindromes,
    \* triple_duplicate
    clWords, clOut, clPc,
    \* histogram
    hgWords, hgPerm, hgOut, hgOutPerm, hgPc,
    \* remain_words
    rwWords, rwResult, rwWl, rwPc,
    \* TimestampManager
    tmData, tmOrder, tmNow, tmRet, tmCalls,
    \* count_islands
    giInput, grid, giI, giJ, count, giPc,
    \* likes counter
    likes, lkNow, lkTimes, lkRet, lkPc, lkCalls

lsVars == <<text, k, i, last_seen, len_, max_, maxpos, lsPc, lsResult>>

wcVars == <<words, first, wcK, wcLen, chain, stack, wcPc, wcResult>>

pcVars == <<pcU, pcV, pcCodeU, pcCodeV, pcPc>>

anVars == <<anWords, anI, codes, anPc>>

rcVars == <<rcText, rcOff, rcOut, rcBack, rcPc>>

clVars == <<clWords, clOut, clPc>>

hgVars == <<hgWords, hgPerm, hgOut, hgOutPerm, hgPc>>

rwVars == <<rwWords, rwResult, rwWl, rwPc>>

tmVars == <<tmData, tmOrder, tmNow, tmRet, tmCalls>>

giVars == <<giInput, grid, giI, giJ, count, giPc>>

lkVars == <<likes, lkNow, lkTimes, lkRet, lkPc, lkCalls>>

wordVars == <<lsVars, wcVars, pcVars, anVars, rcVars>>

vars == <<wordVars, clVars, hgVars, rwVars, tmVars, giVars, lkVars>>

\* What the steps of one function leave alone: the other functions' variables.
notLS == <<wcVars, pcVars, anVars, rcVars,
          clVars, hgVars, rwVars, tmVars, giVars, lkVars>>

notWC == <<lsVars, pcVars, anVars, rcVars,
          clVars, hgVars, rwVars, tmVars, giVars, lkVars>>

notPC == <<lsVars, wcVars, anVars, rcVars,
          clVars, hgVars, rwVars, tmVars, giVars, lkVars>>

notAN == <<lsVars, wcVars, pcVars, rcVars,
          clVars, hgVars, rwVars, tmVars, giVars, lkVars>>

notRC == <<lsVars, wcVars, pcVars, anVars,
          clVars, hgVars, rwVars, tmVars, giVars, lkVars>>

notCL == <<wordVars, hgVars, rwVars, tmVars, giVars, lkVars>>

notHG == <<wordVars, clVars, rwVars, tmVars, giVars, lkVars>>

notRW == <<wordVars, clVars, hgVars, tmVars, giVars, lkVars>>

notTM == <<wordVars, clVars, hgVars, rwVars, giVars, lkVars>>

notGI == <<wordVars, clVars, hgVars, rwVars, tmVars, lkVars>>

notLK == <<wordVars, clVars, hgVars, rwVars, tmVars, giVars>>

(***************************************************************************)
(* longest_substring_with_k_chars(text, k)                                 *)
(***************************************************************************)

\* Bounds of the calls explored.
MaxTextLen == 5

MaxDistinct == 3

LSAlphabet == {Ord.a, Ord.b, Ord.c, Ord.e}

\* last_seen = {} ; len_, max_, maxpos = 0, 0, 0
LSInit ==
    /\ text \in SeqsOf(LSAlphabet, 0, MaxTextLen)
    /\ k \in 0..MaxDistinct
    /\ i = 0
    /\ last_seen = <<>>
    /\ len_ = 0
    /\ max_ = 0
    /\ maxpos = 0
    /\ lsPc = "loop"
    /\ lsResult = <<>>

LSIdle ==
    /\ text = <<>>
    /\ k = 0
    /\ i = 0
    /\ last_seen = <<>>
    /\ len_ = 0
    /\ max_ = 0
    /\ maxpos = 0
    /\ lsPc = "idle"
    /\ lsResult = <<>>

\* d[key] = val on a dict held as a function.
DictSet(d, key, val) ==
    [x \in DOMAIN d \cup {key} |-> IF x = key THEN val ELSE d[x]]

\* A slip of DictPop: the key is looked up and stays in the dict.
DictPopKept(d, key) == d

\* d.pop(key), key present.
DictPop(d, key) == [x \in DOMAIN d \ {key} |-> d[x]]

\* The scan for the least recently seen character: min_ starts at len(text)
\* and falls to the smallest recorded index.
LeastRecentIndex(t, d) == Min({Len(t)} \cup {d[x] : x \in DOMAIN d})

\* A slip of RunAfterEvict: the evicted character's last position is counted
\* into the new run.
RunAfterEvictOffByOne(idx, m) == idx - m + 1

\* len_ = i - min_

RunAfterEvict(idx, m) == idx - m

\* A slip of Improves: a run as long as the best one replaces it.
ImprovesOrTies(run, best) == run >= best

\* if len_ > max_

Improves(run, best) == run > best

\* One iteration of `for (i, c) in enumerate(text)`.
LSStep ==
    /\ lsPc = "loop"
    /\ i < Len(text)
    /\ LET ch == text[i + 1] IN
       IF Cardinality(DOMAIN last_seen) < k \/ ch \in DOMAIN last_seen
       THEN /\ last_seen' = DictSet(last_seen, ch, i)
            /\ len_' = len_ + 1
            /\ IF Improves(len_ + 1, max_)
               THEN /\ max_' = len_ + 1
                    /\ maxpos' = i - (len_ + 1) + 1
               ELSE UNCHANGED <<max_, maxpos>>
            /\ i' = i + 1
            /\ UNCHANGED <<lsPc, lsResult>>
       ELSE LET min_ == LeastRecentIndex(text, last_seen) IN
            IF \A x \in DOMAIN last_seen : last_seen[x] # min_
            THEN \* minc is still '$': last_seen.pop('$') raises KeyError
                 /\ lsPc' = "KeyError"
                 /\ UNCHANGED <<i, last_seen, len_, max_, maxpos, lsResult>>
            ELSE LET minc == CHOOSE x \in DOMAIN last_seen : last_seen[x] = min_ IN
                 /\ last_seen' = DictSet(DictPop(last_seen, minc), ch, i)
                 /\ len_' = RunAfterEvict(i, min_)
                 /\ i' = i + 1
                 /\ UNCHANGED <<max_, maxpos, lsPc, lsResult>>
    /\ UNCHANGED <<text, k>>
    /\ UNCHANGED notLS

\* return text[maxpos:maxpos + max_]
LSReturn ==
    /\ lsPc = "loop"
    /\ i = Len(text)
    /\ lsResult' = Slice(text, maxpos, max_)
    /\ lsPc' = "done"
    /\ UNCHANGED <<text, k, i, last_seen, len_, max_, maxpos>>
    /\ UNCHANGED notLS

(***************************************************************************)
(* word_chain(words, first, k, len_)                                       *)
(***************************************************************************)

\* Bounds of the calls explored.
MaxWordLen == 2

MaxWords == 3

MaxChainLen == 3

MaxAnyWords == 2

WCAlphabet == {Ord.a, Ord.z}

\* The words a list or a seed may hold.
Vocabulary == SeqsOf(WCAlphabet, 1, MaxWordLen)

\* bisect.bisect_left(a, x): the loop on lo, hi (0-based).
RECURSIVE BisectLeftLoop(_, _, _, _)
BisectLeftLoop(a, x, lo, hi) ==
    IF lo < hi
    THEN LET mid == (lo + hi) \div 2 IN
         IF StrLess(a[mid + 1], x)
         THEN BisectLeftLoop(a, x, mid + 1, hi)
         ELSE BisectLeftLoop(a, x, lo, mid)
    ELSE lo

bisect_left(a, x) == BisectLeftLoop(a, x, 0, Len(a))

\* bisect.bisect_right(a, x)
RECURSIVE BisectRightLoop(_, _, _, _)
BisectRightLoop(a, x, lo, hi) ==
    IF lo < hi
    THEN LET mid == (lo + hi) \div 2 IN
         IF StrLess(x, a[mid + 1])
         THEN BisectRightLoop(a, x, lo, mid)
         ELSE BisectRightLoop(a, x, mid + 1, hi)
    ELSE lo

bisect_right(a, x) == BisectRightLoop(a, x, 0, Len(a))

\* n * 'z'
Zs(n) == [j \in 1..n |-> Ord.z]

\* suffix = chain[-1][k:]
Suffix(ch, kk) == DropFirst(ch[Len(ch)], kk)

\* start = bisect_left(words, suffix)
RangeStart(ws, suffix) == bisect_left(ws, suffix)

\* Slips of RangeEnd: the range runs to the end of the list; the range takes
\* its end index in.
RangeEndToListEnd(ws, suffix, kk) == Len(ws)

RangeEndInclusive(ws, suffix, kk) == bisect_right(ws, suffix \o Zs(kk)) + 1

\* end = bisect_right(words, suffix + k * 'z')

RangeEnd(ws, suffix, kk) == bisect_right(ws, suffix \o Zs(kk))

\* A slip of Accepts: a word already in the chain is taken again.
AcceptsRepeats(word, ch, kk) == Len(word) > Len(ch[Len(ch)]) - kk

\* len(word) > len(chain[-1]) - k and word not in chain
Accepts(word, ch, kk) ==
    /\ Len(word) > Len(ch[Len(ch)]) - kk
    /\ word \notin Range(ch)

WCIdle ==
    /\ words = <<>>
    /\ first = <<>>
    /\ wcK = 0
    /\ wcLen = 0
    /\ chain = <<>>
    /\ stack = <<>>
    /\ wcPc = "idle"
    /\ wcResult = "idle"

\* return backtrack(first), about to run, on a sorted list of distinct words.
WCInit ==
    /\ \E S \in SUBSET Vocabulary :
          /\ Cardinality(S) <= MaxWords
          /\ words = SortedSeq(S)
    /\ \E w \in Vocabulary : first = <<w>>
    /\ wcK \in 0..MaxWordLen
    /\ wcLen \in 0..MaxChainLen
    /\ chain = first
    /\ stack = <<>>
    /\ wcPc = "call"
    /\ wcResult = "pending"

\* The calls documented in the source: word_chain(['ab','ba','abc'], ['ab'],
\* 1, 2), and the same seed on a sorted list holding a longer word.
WCDocumented ==
    LET ab == <<Ord.a, Ord.b>>
        ba == <<Ord.b, Ord.a>>
        abc == <<Ord.a, Ord.b, Ord.c>>
        bza == <<Ord.b, Ord.z, Ord.a>>
    IN  /\ words \in {<<ab, ba, abc>>, <<ab, abc, ba>>, <<ab, bza>>}
        /\ first = <<ab>>
        /\ wcK = 1
        /\ wcLen \in 2..3
        /\ chain = first
        /\ stack = <<>>
        /\ wcPc = "call"
        /\ wcResult = "pending"

\* return backtrack(first), about to run, on any list: unsorted, with repeats.
WCInitAny ==
    /\ words \in SeqsOf(Vocabulary, 0, MaxAnyWords)
    /\ \E w \in Vocabulary : first = <<w>>
    /\ wcK \in 0..MaxWordLen
    /\ wcLen \in 0..MaxChainLen
    /\ chain = first
    /\ stack = <<>>
    /\ wcPc = "call"
    /\ wcResult = "pending"

\* The calls followed to their end: lists in any order, with repeats, of
\* short words.
MaxRunWordLen == 1

MaxRunWords == 2

WCInitRun ==
    /\ words \in SeqsOf(SeqsOf(WCAlphabet, 1, MaxRunWordLen), 0, MaxRunWords)
    /\ \E w \in SeqsOf(WCAlphabet, 1, MaxRunWordLen) : first = <<w>>
    /\ wcK \in 0..MaxRunWordLen
    /\ wcLen \in 0..MaxChainLen
    /\ chain = first
    /\ stack = <<>>
    /\ wcPc = "call"
    /\ wcResult = "pending"

\* A slip of NextIndex: every other index of the range is passed over.
NextIndexSkipping(idx) == idx + 2

\* for idx in range(start, end): the index after idx

NextIndex(idx) == idx + 1

\* A slip of Popped: the word appended for the failed call stays in the chain.
PoppedNothing(ch) == ch

\* chain.pop()

Popped(ch) == SubSeq(ch, 1, Len(ch) - 1)

\* backtrack(ch) entered with the frames `frames` of its callers: the base
\* case returns the chain through every caller (each `if backtrack(chain)`
\* sees a non-empty list); otherwise the candidate range is computed and the
\* for loop starts.
Enter(ch, frames) ==
    IF Len(ch) = wcLen
    THEN /\ wcPc' = "done"
         /\ wcResult' = "chain"
         /\ stack' = <<>>
    ELSE IF ch = <<>>
    THEN \* chain[-1] on an empty list
         /\ wcPc' = "IndexError"
         /\ wcResult' = "raised"
         /\ stack' = frames
    ELSE LET suffix == Suffix(ch, wcK) IN
         /\ wcPc' = "loop"
         /\ wcResult' = wcResult
         /\ stack' = Append(frames, [start |-> RangeStart(words, suffix),
                                     end |-> RangeEnd(words, suffix, wcK),
                                     idx |-> RangeStart(words, suffix)])

WCCall ==
    /\ wcPc = "call"
    /\ Enter(chain, stack)
    /\ UNCHANGED <<words, first, wcK, wcLen, chain>>
    /\ UNCHANGED notWC

\* One iteration of `for idx in range(start, end)` in the innermost call.
WCTry ==
    /\ wcPc = "loop"
    /\ stack # <<>>
    /\ LET top == stack[Len(stack)] IN
       /\ top.idx < top.end
       /\ IF top.idx >= Len(words)
          THEN \* words[idx] past the end of the list
               /\ wcPc' = "IndexError"
               /\ wcResult' = "raised"
               /\ UNCHANGED <<chain, stack>>
          ELSE LET word == words[top.idx + 1] IN
               IF Accepts(word, chain, wcK)
               THEN /\ chain' = Append(chain, word)
                    /\ Enter(Append(chain, word), stack)
               ELSE /\ stack' = [stack EXCEPT ![Len(stack)].idx = NextIndex(top.idx)]
                    /\ UNCHANGED <<chain, wcPc, wcResult>>
    /\ UNCHANGED <<words, first, wcK, wcLen>>
    /\ UNCHANGED notWC

\* The for loop of the innermost call is over: it returns None.  Its caller,
\* if any, pops the word it had appended and goes on to its next index.
WCExhausted ==
    /\ wcPc = "loop"
    /\ stack # <<>>
    /\ stack[Len(stack)].idx >= stack[Len(stack)].end
    /\ IF Len(stack) = 1
       THEN /\ stack' = <<>>
            /\ wcPc' = "done"
            /\ wcResult' = "None"
            /\ UNCHANGED chain
       ELSE /\ stack' = [SubSeq(stack, 1, Len(stack) - 1)
                            EXCEPT ![Len(stack) - 1].idx = NextIndex(@)]
            /\ chain' = Popped(chain)
            /\ UNCHANGED <<wcPc, wcResult>>
    /\ UNCHANGED <<words, first, wcK, wcLen>>
    /\ UNCHANGED notWC

(***************************************************************************)
(* prime_code(word)                                                        *)
(***************************************************************************)

\* Bound of the words encoded.
MaxCodeLen == 2

\* Letters, and characters outside a-z on either side of the table.
PCAlphabet == {Ord.a, Ord.b, Ord.z, Ord.backtick, Ord.G, Ord.A, Ord.lbrace}

\* A slip of Primes: 4 in the place of 3.
PrimesWithTypo ==
    <<2, 4, 5, 7, 11, 13, 17, 19, 23, 29, 31, 37, 41, 43,
      47, 53, 59, 61, 67, 71, 73, 79, 83, 89, 97, 101>>

\* __primes
Primes ==
    <<2, 3, 5, 7, 11, 13, 17, 19, 23, 29, 31, 37, 41, 43,
      47, 53, 59, 61, 67, 71, 73, 79, 83, 89, 97, 101>>

\* a[idx] on a Python list: a negative index counts from the end, an index
\* outside -len(a)..len(a)-1 raises IndexError.
ListIndex(a, idx) ==
    IF 0 <= idx /\ idx < Len(a) THEN [raised |-> FALSE, val |-> a[idx + 1]]
    ELSE IF -Len(a) <= idx /\ idx < 0
    THEN [raised |-> FALSE, val |-> a[Len(a) + idx + 1]]
    ELSE [raised |-> TRUE, val |-> 0]

\* The loop of prime_code from character j (1-based) with the product so far.
RECURSIVE PrimeCodeLoop(_, _, _)
PrimeCodeLoop(word, j, code) ==
    IF j > Len(word) THEN [raised |-> FALSE, code |-> code]
    ELSE LET p == ListIndex(Primes, word[j] - Ord.a) IN
         IF p.raised THEN [raised |-> TRUE, code |-> 0]
         ELSE PrimeCodeLoop(word, j + 1, code * p.val)

prime_code(word) == PrimeCodeLoop(word, 1, 1)

PCInit ==
    /\ pcU \in SeqsOf(PCAlphabet, 0, MaxCodeLen)
    /\ pcV \in SeqsOf(PCAlphabet, 0, MaxCodeLen)
    /\ pcCodeU = [raised |-> FALSE, code |-> 0]
    /\ pcCodeV = [raised |-> FALSE, code |-> 0]
    /\ pcPc = "call"

PCIdle ==
    /\ pcU = <<>>
    /\ pcV = <<>>
    /\ pcCodeU = [raised |-> FALSE, code |-> 0]
    /\ pcCodeV = [raised |-> FALSE, code |-> 0]
    /\ pcPc = "idle"

\* prime_code(u) and prime_code(v) are evaluated.
PCEncode ==
    /\ pcPc = "call"
    /\ pcCodeU' = prime_code(pcU)
    /\ pcCodeV' = prime_code(pcV)
    /\ pcPc' = "done"
    /\ UNCHANGED <<pcU, pcV>>
    /\ UNCHANGED notPC

(***************************************************************************)
(* all_anagrams(words)                                                     *)
(***************************************************************************)

\* Bounds of the lists grouped.
MaxAnagramLen == 2

MaxGroupWords == 3

\* The words a list may hold: every word over a, b up to the length bound,
\* and one-character words at the end of and outside the table.
ANPool ==
    SeqsOf({Ord.a, Ord.b}, 0, MaxAnagramLen)
        \cup {<<Ord.z>>, <<Ord.backtick>>, <<Ord.A>>}

\* The list of the toolkit's example: bca, abc, cab, xyz.
ANExample ==
    <<<<Ord.b, Ord.c, Ord.a>>, <<Ord.a, Ord.b, Ord.c>>,
      <<Ord.c, Ord.a, Ord.b>>, <<Ord.x, Ord.y, Ord.z>>>>

\* codes = {}
ANInit ==
    /\ anWords \in SeqsOf(ANPool, 0, MaxGroupWords) \cup {ANExample}
    /\ anI = 0
    /\ codes = <<>>
    /\ anPc = "loop"

ANIdle ==
    /\ anWords = <<>>
    /\ anI = 0
    /\ codes = <<>>
    /\ anPc = "idle"

\* d.get(key, [])
DictGet(d, key) == IF key \in DOMAIN d THEN d[key] ELSE <<>>

\* A slip of Grouped: the list already stored under the code is dropped.
GroupedAlone(d, code, word) == DictSet(d, code, <<word>>)

\* codes[code] = codes.get(code, []) + [word]
Grouped(d, code, word) == DictSet(d, code, DictGet(d, code) \o <<word>>)

\* One iteration of `for word in words`.
ANStep ==
    /\ anPc = "loop"
    /\ anI < Len(anWords)
    /\ LET word == anWords[anI + 1]
           code == prime_code(word)
       IN  IF code.raised
           THEN /\ anPc' = "IndexError"
                /\ UNCHANGED <<anI, codes>>
           ELSE /\ codes' = Grouped(codes, code.code, word)
                /\ anI' = anI + 1
                /\ UNCHANGED anPc
    /\ UNCHANGED anWords
    /\ UNCHANGED notAN

\* return codes
ANReturn ==
    /\ anPc = "loop"
    /\ anI = Len(anWords)
    /\ anPc' = "done"
    /\ UNCHANGED <<anWords, anI, codes>>
    /\ UNCHANGED notAN

(***************************************************************************)
(* rotate_consonants(text, off)                                            *)
(***************************************************************************)

\* Bounds of the calls explored.
MaxRotateLen == 4

MaxOffset == 3

\* Consonants in both cases, vowels in both cases, a space.
RCAlphabet == {Ord.b, Ord.c, Ord.D, Ord.a, Ord.E, Ord.space}

\* __cons: "bcdfghjklmnpqrstvwxyz" and its upper case.
ConsLower ==
    {98, 99, 100, 102, 103, 104, 106, 107, 108, 109, 110, 112, 113, 114,
     115, 116, 118, 119, 120, 121, 122}

Cons == ConsLower \cup {ch - 32 : ch \in ConsLower}

\* str.isupper, str.upper and str.lower on one character.
IsUpper(ch) == ch \in 65..90

Upper(ch) == IF ch \in 97..122 THEN ch - 32 ELSE ch

Lower(ch) == IF ch \in 65..90 THEN ch + 32 ELSE ch

\* cons_pos = [i for (i, c) in enumerate(text) if c in __cons], 0-based.
RECURSIVE ConsPosFrom(_, _)
ConsPosFrom(t, j) ==
    IF j > Len(t) THEN <<>>
    ELSE (IF t[j] \in Cons THEN <<j - 1>> ELSE <<>>) \o ConsPosFrom(t, j + 1)

ConsPos(t) == ConsPosFrom(t, 1)

\* A slip of Succ: the index is clamped to the list instead of wrapping.
SuccNoWrap(pos, off, n) == Max({0, Min({n - 1, pos + off})})

\* succ = (pos + off) % len(cons_pos), for len(cons_pos) > 0

Succ(pos, off, n) == (pos + off) % n

\* A slip of MatchCase: the incoming consonant keeps the case it had.
MatchCaseOfIncoming(ch, sc) == sc

\* sc.upper() if c.isupper() else sc.lower()

MatchCase(ch, sc) == IF IsUpper(ch) THEN Upper(sc) ELSE Lower(sc)

\* The loop over enumerate(text) from character j (1-based).
RECURSIVE RotateLoop(_, _, _, _, _)
RotateLoop(t, off, j, pos, result) ==
    IF j > Len(t) THEN [raised |-> FALSE, val |-> result]
    ELSE IF t[j] \in Cons
    THEN LET cons_pos == ConsPos(t) IN
         IF Len(cons_pos) = 0
         THEN \* % len(cons_pos) with no consonant: ZeroDivisionError
              [raised |-> TRUE, val |-> result]
         ELSE LET succ == Succ(pos, off, Len(cons_pos))
                  sc == t[cons_pos[succ + 1] + 1]
              IN  RotateLoop(t, off, j + 1, (pos + 1) % Len(cons_pos),
                             Append(result, MatchCase(t[j], sc)))
    ELSE RotateLoop(t, off, j + 1, pos, Append(result, t[j]))

\* A slip of rotate_consonants: the offset is reduced modulo len(cons_pos)
\* once, ahead of the loop, also when the text holds no consonant.
RotateReducingOffsetFirst(t, off) ==
    IF Len(ConsPos(t)) = 0 THEN [raised |-> TRUE, val |-> <<>>]
    ELSE RotateLoop(t, off % Len(ConsPos(t)), 1, 0, <<>>)

\* pos, result = 0, "" and the loop over the whole text

rotate_consonants(t, off) == RotateLoop(t, off, 1, 0, <<>>)

RCInit ==
    /\ rcText \in SeqsOf(RCAlphabet, 0, MaxRotateLen)
    /\ rcOff \in -MaxOffset..MaxOffset
    /\ rcOut = <<>>
    /\ rcBack = <<>>
    /\ rcPc = "call"

RCIdle ==
    /\ rcText = <<>>
    /\ rcOff = 0
    /\ rcOut = <<>>
    /\ rcBack = <<>>
    /\ rcPc = "idle"

\* out = rotate_consonants(text, off)
RCRotate ==
    /\ rcPc = "call"
    /\ LET r == rotate_consonants(rcText, rcOff) IN
       /\ rcOut' = r.val
       /\ rcPc' = IF r.raised THEN "ZeroDivisionError" ELSE "rotated"
    /\ UNCHANGED <<rcText, rcOff, rcBack>>
    /\ UNCHANGED notRC

\* back = rotate_consonants(out, -off)
RCRotateBack ==
    /\ rcPc = "rotated"
    /\ LET r == rotate_consonants(rcOut, -rcOff) IN
       /\ rcBack' = r.val
       /\ rcPc' = IF r.raised THEN "ZeroDivisionError" ELSE "restored"
    /\ UNCHANGED <<rcText, rcOff, rcOut>>
    /\ UNCHANGED notRC

(***************************************************************************)
(* The word classifiers: semordnilap, rotodromes, almost_palindromes,      *)
(* triple_duplicate                                                        *)
(***************************************************************************)

\* Bounds of the calls explored: word lists of up to MaxClassWords words of
\* up to MaxClassLen letters, and single words of up to MaxPairLen letters.
MaxClassLen == 4

MaxClassWords == 2

MaxPairLen == 7

ClassAlphabet == {Ord.a, Ord.b}

ClassPool == SeqsOf(ClassAlphabet, 0, MaxClassLen)

\* "aaa", "aaaa", "bookkeeper", "hello", the words the text of
\* triple_duplicate is explained with.
PairExamples ==
    {<<Ord.a, Ord.a, Ord.a>>,
     <<Ord.a, Ord.a, Ord.a, Ord.a>>,
     <<Ord.b, Ord.o, Ord.o, Ord.k, Ord.k, Ord.e, Ord.e, Ord.p, Ord.e, Ord.r>>,
     <<Ord.h, Ord.e, Ord.l, Ord.l, Ord.o>>}

CLInit ==
    /\ \/ clWords \in SeqsOf(ClassPool, 0, MaxClassWords)
       \/ clWords \in SeqsOf(SeqsOf(ClassAlphabet, MaxClassLen + 1, MaxPairLen), 1, 1)
       \/ clWords \in SeqsOf(PairExamples, 1, 2)
    /\ clOut = <<>>
    /\ clPc = "call"

CLIdle ==
    /\ clWords = <<>>
    /\ clOut = <<>>
    /\ clPc = "idle"

\* w[::-1]
Reverse(w) == [j \in 1..Len(w) |-> w[Len(w) + 1 - j]]

\* w[:i] + w[i+1:], i counted from 0
Without(w, idx) == SubSeq(w, 1, idx) \o SubSeq(w, idx + 2, Len(w))

\* A slip of IsSemordnilap: the test w != w[::-1] is left out.
IsSemordnilapOrPalindrome(w, wset) == Reverse(w) \in wset

\* w != w[::-1] and w[::-1] in wset

IsSemordnilap(w, wset) == w # Reverse(w) /\ Reverse(w) \in wset

semordnilap(ws) ==
    LET wset == Range(ws)
        keep(w) == IsSemordnilap(w, wset)
    IN  SelectSeq(ws, keep)

\* A slip of RotationOffsets: the last rotation position is left out.
RotationOffsetsButLast(word) == 1..Len(word) - 2

\* range(1, len(word))

RotationOffsets(word) == 1..Len(word) - 1

\* is_rotodrome: the first offset whose rotation is another word of wset
\* returns True, and the loop running out returns False.
is_rotodrome(word, wset) ==
    \E off \in RotationOffsets(word) :
        LET w2 == DropFirst(word, off) \o SubSeq(word, 1, off)
        IN  word # w2 /\ w2 \in wset

rotodromes(ws) ==
    LET w_set == Range(ws)
        keep(w) == is_rotodrome(w, w_set)
    IN  SelectSeq(ws, keep)

\* A slip of almost: the test word != word[::-1] is left out.
AlmostOrPalindrome(word) ==
    \E idx \in 0..Len(word) - 1 :
        Without(word, idx) = Reverse(Without(word, idx))

\* almost: a word that is no palindrome and becomes one when the letter at
\* some idx in range(len(word)) is removed.

almost(word) ==
    /\ word # Reverse(word)
    /\ \E idx \in 0..Len(word) - 1 :
           Without(word, idx) = Reverse(Without(word, idx))

almost_palindromes(ws) ==
    LET keep(w) == Len(w) > 2 /\ almost(w)
    IN  SelectSeq(ws, keep)

\* A slip of AfterPair: the scan resumes inside the pair it has just matched.
AfterPairOverlapping(j) == j + 1

\* re.findall resumes behind the match, two characters on.

AfterPair(j) == j + 2

\* len(re.findall(r'(.)\1', x)): the scan from character j (1-based) with n
\* pairs found so far; '.' matches every character but a newline.
RECURSIVE FindAllPairs(_, _, _)
FindAllPairs(x, j, n) ==
    IF j + 1 > Len(x) THEN n
    ELSE IF x[j] # Ord.newline /\ x[j + 1] = x[j]
         THEN FindAllPairs(x, AfterPair(j), n + 1)
         ELSE FindAllPairs(x, j + 1, n)

triple_duplicate(ws) ==
    LET keep(x) == FindAllPairs(x, 1, 0) >= 3
    IN  SelectSeq(ws, keep)

\* A slip of TripleAt: the three doubled characters are required to differ.
TripleAtOfDistinct(x, j) ==
    /\ j + 5 <= Len(x)
    /\ \A m \in j..j + 5 : x[m] # Ord.newline
    /\ x[j + 1] = x[j] /\ x[j + 3] = x[j + 2] /\ x[j + 5] = x[j + 4]
    /\ x[j] # x[j + 2] /\ x[j + 2] # x[j + 4] /\ x[j] # x[j + 4]

\* A slip of TripleAt: the pattern stops after the second pair.
TripleAtOfTwoPairs(x, j) ==
    /\ j + 3 <= Len(x)
    /\ \A m \in j..j + 3 : x[m] # Ord.newline
    /\ x[j + 1] = x[j] /\ x[j + 3] = x[j + 2]

\* regex = r'(.)\1(.)\2(.)\3' matched at character j (1-based): three
\* characters, none a newline, each followed by itself.

TripleAt(x, j) ==
    /\ j + 5 <= Len(x)
    /\ \A m \in j..j + 5 : x[m] # Ord.newline
    /\ x[j + 1] = x[j] /\ x[j + 3] = x[j + 2] /\ x[j + 5] = x[j + 4]

\* len(re.findall(regex, x)): the scan from character j (1-based) with n
\* matches found so far, resumed behind each match.
RECURSIVE FindAllTriples(_, _, _)
FindAllTriples(x, j, n) ==
    IF j > Len(x) THEN n
    ELSE IF TripleAt(x, j) THEN FindAllTriples(x, j + 6, n + 1)
    ELSE FindAllTriples(x, j + 1, n)

consec_triple_duplicate(ws) ==
    LET keep(x) == FindAllTriples(x, 1, 0) > 0
    IN  SelectSeq(ws, keep)

CLSemordnilap ==
    /\ clPc = "call"
    /\ clOut' = semordnilap(clWords)
    /\ clPc' = "semordnilap"
    /\ UNCHANGED clWords
    /\ UNCHANGED notCL

CLRotodromes ==
    /\ clPc = "call"
    /\ clOut' = rotodromes(clWords)
    /\ clPc' = "rotodromes"
    /\ UNCHANGED clWords
    /\ UNCHANGED notCL

CLAlmostPalindromes ==
    /\ clPc = "call"
    /\ clOut' = almost_palindromes(clWords)
    /\ clPc' = "almost_palindromes"
    /\ UNCHANGED clWords
    /\ UNCHANGED notCL

CLTripleDuplicate ==
    /\ clPc = "call"
    /\ clOut' = triple_duplicate(clWords)
    /\ clPc' = "triple_duplicate"
    /\ UNCHANGED clWords
    /\ UNCHANGED notCL

CLConsecTripleDuplicate ==
    /\ clPc = "call"
    /\ clOut' = consec_triple_duplicate(clWords)
    /\ clPc' = "consec_triple_duplicate"
    /\ UNCHANGED clWords
    /\ UNCHANGED notCL

(***************************************************************************)
(* histogram(words)                                                        *)
(***************************************************************************)

\* Bounds of the calls explored.
MaxHistLen == 2

MaxHistWords == 2

HistAlphabet == {Ord.a, Ord.b}

\* The orders a list can be put in.
Permuted(ws) ==
    {[j \in DOMAIN ws |-> ws[p[j]]] :
        p \in {q \in [DOMAIN ws -> DOMAIN ws] :
                  \A m, n \in DOMAIN ws : m # n => q[m] # q[n]}}

\* Lists of three words that share characters: "ab", "b" and "".
HistTriples == SeqsOf({<<Ord.a, Ord.b>>, <<Ord.b>>, <<>>}, 3, 3)

HGInit ==
    /\ \/ hgWords \in SeqsOf(SeqsOf(HistAlphabet, 0, MaxHistLen), 0, MaxHistWords)
       \/ hgWords \in HistTriples
    /\ hgPerm \in Permuted(hgWords)
    /\ hgOut = <<>>
    /\ hgOutPerm = <<>>
    /\ hgPc = "call"

HGIdle ==
    /\ hgWords = <<>>
    /\ hgPerm = <<>>
    /\ hgOut = <<>>
    /\ hgOutPerm = <<>>
    /\ hgPc = "idle"

\* A slip of Counted: a character seen again starts over at 1.
CountedAfresh(result, ch) == DictSet(result, ch, 1)

\* result[c] = result.get(c, 0) + 1

Counted(result, ch) ==
    DictSet(result, ch, (IF ch \in DOMAIN result THEN result[ch] ELSE 0) + 1)

\* for c in word, from character j (1-based)
RECURSIVE CountWord(_, _, _)
CountWord(word, j, result) ==
    IF j > Len(word) THEN result
    ELSE CountWord(word, j + 1, Counted(result, word[j]))

\* for word in words, from word j (1-based)
RECURSIVE CountWords(_, _, _)
CountWords(ws, j, result) ==
    IF j > Len(ws) THEN result
    ELSE CountWords(ws, j + 1, CountWord(ws[j], 1, result))

histogram(ws) == CountWords(ws, 1, <<>>)

\* histogram(words)
HGCount ==
    /\ hgPc = "call"
    /\ hgOut' = histogram(hgWords)
    /\ hgPc' = "counted"
    /\ UNCHANGED <<hgWords, hgPerm, hgOutPerm>>
    /\ UNCHANGED notHG

\* histogram of the same words in another order
HGCountPermuted ==
    /\ hgPc = "counted"
    /\ hgOutPerm' = histogram(hgPerm)
    /\ hgPc' = "done"
    /\ UNCHANGED <<hgWords, hgPerm, hgOut>>
    /\ UNCHANGED notHG

(***************************************************************************)
(* remain_words(words)                                                     *)
(***************************************************************************)

\* Bounds of the calls explored.
MaxRemainLen == 3

MaxRemainWords == 3

RemainAlphabet == {Ord.a, Ord.b}

\* result = [[], [x for x in words if len(x) == 1]] ; wl = 2
RWInit ==
    /\ rwWords \in SeqsOf(SeqsOf(RemainAlphabet, 1, MaxRemainLen), 0, MaxRemainWords)
    /\ LET keep(x) == Len(x) = 1
       IN  rwResult = <<<<>>, SelectSeq(rwWords, keep)>>
    /\ rwWl = 2
    /\ rwPc = "loop"

RWIdle ==
    /\ rwWords = <<>>
    /\ rwResult = <<>>
    /\ rwWl = 0
    /\ rwPc = "idle"

\* A slip of InLevel: the shortened word is taken without looking it up.
InLevelUnchecked(ww, result, level) == TRUE

\* ww in result[wl - 1]: result[1] is a list, the later levels are dicts
\* and hold ww when it is one of their keys.

InLevel(ww, result, level) ==
    IF level = 1 THEN ww \in Range(result[level + 1])
    ELSE ww \in DOMAIN result[level + 1]

\* for i in range(0, wl - 1), from i on: the words w turns into, in order
RECURSIVE ShorterFrom(_, _, _, _)
ShorterFrom(w, idx, wl, result) ==
    IF idx >= wl - 1 THEN <<>>
    ELSE LET ww == Without(w, idx)
         IN  (IF InLevel(ww, result, wl - 1) THEN <<ww>> ELSE <<>>)
                 \o ShorterFrom(w, idx + 1, wl, result)

\* for w in (x for x in words if len(x) == wl), from word j (1-based) on
RECURSIVE NextLevelFrom(_, _, _, _, _)
NextLevelFrom(ws, j, wl, result, next_level) ==
    IF j > Len(ws) THEN next_level
    ELSE IF Len(ws[j]) # wl THEN NextLevelFrom(ws, j + 1, wl, result, next_level)
    ELSE LET shorter == ShorterFrom(ws[j], 0, wl, result)
         IN  NextLevelFrom(ws, j + 1, wl, result,
                           IF Len(shorter) > 0 THEN DictSet(next_level, ws[j], shorter)
                           ELSE next_level)

\* One iteration of `while True`: has_words is set exactly when next_level
\* has received a key.
RWLevel ==
    /\ rwPc = "loop"
    /\ LET next_level == NextLevelFrom(rwWords, 1, rwWl, rwResult, <<>>)
           has_words == DOMAIN next_level # {}
       IN  IF has_words
           THEN /\ rwResult' = Append(rwResult, next_level)
                /\ rwWl' = rwWl + 1
                /\ UNCHANGED rwPc
           ELSE /\ rwPc' = "done"
                /\ UNCHANGED <<rwResult, rwWl>>
    /\ UNCHANGED rwWords
    /\ UNCHANGED notRW

(***************************************************************************)
(* TimestampManager                                                        *)
(***************************************************************************)

\* Bounds of the runs explored: the number of calls made on the manager and
\* the last reading of the clock, in ticks of half a second.
MaxCalls == 4

MaxClock == 4

TicksPerSecond == 2

\* Keys, the empty string among them, and values.
TMKeys == {"", "user1", "user2"}

TMValues == {"John Doe"}

\* self.data = {}
TMInit ==
    /\ tmData = <<>>
    /\ tmOrder = <<>>
    /\ tmNow = 0
    /\ tmRet = [fn |-> "__init__", none |-> TRUE]
    /\ tmCalls = 0

TMIdle ==
    /\ tmData = <<>>
    /\ tmOrder = <<>>
    /\ tmNow = 0
    /\ tmRet = [fn |-> "idle", none |-> TRUE]
    /\ tmCalls = 0

\* datetime.now().strftime("%Y-%m-%d %H:%M:%S"): the reading of the clock cut
\* down to the whole second, the text standing for that second.
Strftime(now) == now \div TicksPerSecond

\* datetime.strptime(s, "%Y-%m-%d %H:%M:%S"): the instant at which the second
\* written in s begins.
Strptime(s) == s * TicksPerSecond

\* The keys of self.data in the order items() yields them: a key keeps the
\* place of its first insertion.
Inserted(order, key) ==
    IF \E j \in DOMAIN order : order[j] = key THEN order ELSE Append(order, key)

\* The truth value of a key in `if newest_key:`; None and "" are false.
Truthy(key) == key # ""

\* The loop of get_newest_entry from the j-th item on; best is the pair
\* newest_key, newest_timestamp, with none set while both are None.
RECURSIVE NewestFrom(_, _, _, _)
NewestFrom(data, order, j, best) ==
    IF j > Len(order) THEN best
    ELSE LET key == order[j]
             entry == data[key]
         IN  IF "timestamp" \notin DOMAIN entry
             THEN NewestFrom(data, order, j + 1, best)
             ELSE LET current_timestamp == Strptime(entry.timestamp)
                  IN  IF best.none \/ current_timestamp > best.timestamp
                      THEN NewestFrom(data, order, j + 1,
                               [none |-> FALSE, key |-> key,
                                timestamp |-> current_timestamp])
                      ELSE NewestFrom(data, order, j + 1, best)

\* The loop of get_oldest_entry from the j-th item on.
RECURSIVE OldestFrom(_, _, _, _)
OldestFrom(data, order, j, best) ==
    IF j > Len(order) THEN best
    ELSE LET key == order[j]
             entry == data[key]
         IN  IF "timestamp" \notin DOMAIN entry
             THEN OldestFrom(data, order, j + 1, best)
             ELSE LET current_timestamp == Strptime(entry.timestamp)
                  IN  IF best.none \/ current_timestamp < best.timestamp
                      THEN OldestFrom(data, order, j + 1,
                               [none |-> FALSE, key |-> key,
                                timestamp |-> current_timestamp])
                      ELSE OldestFrom(data, order, j + 1, best)

\* if newest_key: return (newest_key, self.data[newest_key])
\* return (None, None)
Returned(fn, data, best) ==
    IF ~best.none /\ Truthy(best.key)
    THEN [fn |-> fn, none |-> FALSE, key |-> best.key, entry |-> data[best.key]]
    ELSE [fn |-> fn, none |-> TRUE]

\* add_entry(key, value), the clock read at some instant not before the
\* last reading
TMAddEntry ==
    /\ tmCalls < MaxCalls
    /\ \E key \in TMKeys, value \in TMValues, now \in tmNow..MaxClock :
           LET entry == [value |-> value, timestamp |-> Strftime(now)] IN
           /\ tmData' = DictSet(tmData, key, entry)
           /\ tmOrder' = Inserted(tmOrder, key)
           /\ tmNow' = now
           /\ tmRet' = [fn |-> "add_entry", none |-> FALSE, key |-> key,
                        entry |-> entry]
    /\ tmCalls' = tmCalls + 1
    /\ UNCHANGED notTM

\* update_timestamp(key)
TMUpdateTimestamp ==
    /\ tmCalls < MaxCalls
    /\ \E key \in TMKeys, now \in tmNow..MaxClock :
           IF key \in DOMAIN tmData
           THEN LET entry == [value |-> tmData[key].value,
                              timestamp |-> Strftime(now)] IN
                /\ tmData' = DictSet(tmData, key, entry)
                /\ tmNow' = now
                /\ tmRet' = [fn |-> "update_timestamp", none |-> FALSE,
                             key |-> key, entry |-> entry]
           ELSE /\ tmRet' = [fn |-> "update_timestamp", none |-> TRUE]
                /\ UNCHANGED <<tmData, tmNow>>
    /\ tmCalls' = tmCalls + 1
    /\ UNCHANGED tmOrder
    /\ UNCHANGED notTM

\* remove_timestamp(key)
TMRemoveTimestamp ==
    /\ tmCalls < MaxCalls
    /\ \E key \in TMKeys :
           IF key \in DOMAIN tmData
           THEN LET entry == [value |-> tmData[key].value] IN
                /\ tmData' = DictSet(tmData, key, entry)
                /\ tmRet' = [fn |-> "remove_timestamp", none |-> FALSE,
                             key |-> key, entry |-> entry]
           ELSE /\ tmRet' = [fn |-> "remove_timestamp", none |-> TRUE]
                /\ UNCHANGED tmData
    /\ tmCalls' = tmCalls + 1
    /\ UNCHANGED <<tmOrder, tmNow>>
    /\ UNCHANGED notTM

\* get_newest_entry()
TMGetNewestEntry ==
    /\ tmCalls < MaxCalls
    /\ tmRet' = Returned("get_newest_entry", tmData,
                         NewestFrom(tmData, tmOrder, 1, [none |-> TRUE]))
    /\ tmCalls' = tmCalls + 1
    /\ UNCHANGED <<tmData, tmOrder, tmNow>>
    /\ UNCHANGED notTM

\* get_oldest_entry()
TMGetOldestEntry ==
    /\ tmCalls < MaxCalls
    /\ tmRet' = Returned("get_oldest_entry", tmData,
                         OldestFrom(tmData, tmOrder, 1, [none |-> TRUE]))
    /\ tmCalls' = tmCalls + 1
    /\ UNCHANGED <<tmData, tmOrder, tmNow>>
    /\ UNCHANGED notTM

(***************************************************************************)
(* count_islands(grid)                                                     *)
(***************************************************************************)

\* Bounds of the grids explored.
MaxRows == 2

MaxCols == 3

\* test_grids
test_grids ==
    << << <<"1", "1", "1", "1", "0">>,
          <<"1", "1", "0", "1", "0">>,
          <<"1", "1", "0", "0", "0">>,
          <<"0", "0", "0", "0", "0">> >>,
       << <<"1", "1", "0", "0", "0">>,
          <<"1", "1", "0", "0", "0">>,
          <<"0", "0", "1", "0", "0">>,
          <<"0", "0", "0", "1", "1">> >>,
       << <<"1", "0", "1", "0", "1">>,
          <<"0", "1", "0", "1", "0">>,
          <<"1", "0", "1", "0", "1">> >> >>

\* The call on a grid of the bounds, the grids without a row or without a
\* column included, or on a copy of one of test_grids.
GIInit ==
    /\ \/ \E rows \in 0..MaxRows, cols \in 0..MaxCols :
              giInput \in [1..rows -> [1..cols -> {"0", "1"}]]
       \/ \E n \in DOMAIN test_grids : giInput = test_grids[n]
    /\ grid = giInput
    /\ giI = 0
    /\ giJ = 0
    /\ count = 0
    /\ giPc = "call"

GIIdle ==
    /\ giInput = <<>>
    /\ grid = <<>>
    /\ giI = 0
    /\ giJ = 0
    /\ count = 0
    /\ giPc = "idle"

\* A slip of Directions: the step to the left is left out.
DirectionsWithoutLeft == <<<<0, 1>>, <<1, 0>>, <<-1, 0>>>>

\* [(0,1), (1,0), (0,-1), (-1,0)]

Directions == <<<<0, 1>>, <<1, 0>>, <<0, -1>>, <<-1, 0>>>>

\* dfs on the calls still to be made, the next one first: a call out of the
\* grid or on a cell that is not '1' returns, any other marks its cell '0' and
\* calls dfs on the four neighbours in the order of Directions.
RECURSIVE dfs(_, _)
dfs(g, calls) ==
    IF calls = <<>> THEN g
    ELSE LET ci == Head(calls)[1]
             cj == Head(calls)[2]
         IN  IF \/ ci < 0
                \/ ci >= Len(g)
                \/ cj < 0
                \/ cj >= Len(g[1])
                \/ g[ci + 1][cj + 1] # "1"
             THEN dfs(g, Tail(calls))
             ELSE dfs([g EXCEPT ![ci + 1][cj + 1] = "0"],
                      [n \in DOMAIN Directions |->
                          <<ci + Directions[n][1], cj + Directions[n][2]>>]
                          \o Tail(calls))

\* if not grid or not grid[0]: return 0 ; count = 0
GIEnter ==
    /\ giPc = "call"
    /\ giPc' = IF grid = <<>> \/ grid[1] = <<>> THEN "done" ELSE "scan"
    /\ UNCHANGED <<giInput, grid, giI, giJ, count>>
    /\ UNCHANGED notGI

\* One iteration of `for j in range(len(grid[0]))` in row i.
GIVisit ==
    /\ giPc = "scan"
    /\ giI < Len(grid)
    /\ IF grid[giI + 1][giJ + 1] = "1"
       THEN /\ grid' = dfs(grid, <<<<giI, giJ>>>>)
            /\ count' = count + 1
       ELSE UNCHANGED <<grid, count>>
    /\ IF giJ + 1 < Len(grid[1])
       THEN /\ giJ' = giJ + 1
            /\ UNCHANGED giI
       ELSE /\ giJ' = 0
            /\ giI' = giI + 1
    /\ UNCHANGED <<giInput, giPc>>
    /\ UNCHANGED notGI

\* return count
GIReturn ==
    /\ giPc = "scan"
    /\ giI = Len(grid)
    /\ giPc' = "done"
    /\ UNCHANGED <<giInput, grid, giI, giJ, count>>
    /\ UNCHANGED notGI

(***************************************************************************)
(* likes counter (src/test/google_intw_r1.py): trigger() and get_count()   *)
(***************************************************************************)

MaxLikeCalls == 4

\* The window of get_count in seconds; time.time() is held in whole seconds.
Window == 300

\* Seconds that may pass between one reading of time.time() and the next.
Elapsed == {0, 1, Window - 1, Window}

\* likes = {} ; the module has been loaded at time 0 and nothing was called.
LKInit ==
    /\ likes = <<>>
    /\ lkNow = 0
    /\ lkTimes = <<>>
    /\ lkRet = <<>>
    /\ lkPc = "loaded"
    /\ lkCalls = 0

LKIdle ==
    /\ likes = <<>>
    /\ lkNow = 0
    /\ lkTimes = <<>>
    /\ lkRet = <<>>
    /\ lkPc = "idle"
    /\ lkCalls = 0

\* The key `for key in likes` yields first: the key inserted first, which is
\* the smallest one since the clock never runs backwards.
FirstKey(d) == Min(DOMAIN d)

\* trigger(): now = time.time(); likes[now] += 1 or likes.update({now: 1}).
\* lkTimes records the time of every call.
LKTrigger ==
    /\ lkPc # "idle"
    /\ lkCalls < MaxLikeCalls
    /\ \E d \in Elapsed :
          LET now == lkNow + d IN
          /\ likes' = IF now \in DOMAIN likes
                      THEN DictSet(likes, now, likes[now] + 1)
                      ELSE DictSet(likes, now, 1)
          /\ lkNow' = now
          /\ lkTimes' = Append(lkTimes, now)
    /\ lkPc' = "trigger"
    /\ lkRet' = <<>>
    /\ lkCalls' = lkCalls + 1
    /\ UNCHANGED notLK

\* get_count(): c_now = time.time(), then the loop over likes. count is
\* assigned in the function and not declared global, so it is a local name
\* without a value: `count += likes[key]` and `return count` raise
\* UnboundLocalError. After likes.pop(key) the iteration raises RuntimeError
\* (dictionary changed size during iteration) when it asks for the next key.
LKGetCount ==
    /\ lkPc # "idle"
    /\ lkCalls < MaxLikeCalls
    /\ \E d \in Elapsed :
          LET c_now == lkNow + d IN
          /\ lkNow' = c_now
          /\ IF DOMAIN likes = {}
             THEN /\ lkPc' = "UnboundLocalError"
                  /\ UNCHANGED likes
             ELSE LET key == FirstKey(likes) IN
                  IF c_now - key < Window
                  THEN /\ lkPc' = "UnboundLocalError"
                       /\ UNCHANGED likes
                  ELSE /\ likes' = DictPop(likes, key)
                       /\ lkPc' = "RuntimeError"
    /\ lkRet' = <<>>
    /\ lkCalls' = lkCalls + 1
    /\ UNCHANGED lkTimes
    /\ UNCHANGED notLK

OthersIdle == CLIdle /\ HGIdle /\ RWIdle /\ TMIdle /\ GIIdle /\ LKIdle

WordIdle == LSIdle /\ WCIdle /\ PCIdle /\ ANIdle /\ RCIdle

(***************************************************************************)
(* Specifications                                                          *)
(***************************************************************************)

InitLS == LSInit /\ WCIdle /\ PCIdle /\ ANIdle /\ RCIdle /\ OthersIdle

NextLS == LSStep \/ LSReturn

SpecLS == InitLS /\ [][NextLS]_vars

InitWC == (WCInit \/ WCDocumented) /\ LSIdle /\ PCIdle /\ ANIdle /\ RCIdle /\ OthersIdle

NextWC == WCCall \/ WCTry \/ WCExhausted

SpecWC == InitWC /\ [][NextWC]_vars

InitWCAny == (WCInitAny \/ WCDocumented) /\ LSIdle /\ PCIdle /\ ANIdle /\ RCIdle /\ OthersIdle

SpecWCAny == InitWCAny /\ [][NextWC]_vars

\* word_chain run to its end: a call that can take a step takes one.
InitWCRun == (WCInitRun \/ WCDocumented) /\ LSIdle /\ PCIdle /\ ANIdle /\ RCIdle /\ OthersIdle

SpecWCFair == InitWCRun /\ [][NextWC]_vars /\ WF_vars(NextWC)

InitPC == PCInit /\ LSIdle /\ WCIdle /\ ANIdle /\ RCIdle /\ OthersIdle

NextPC == PCEncode

SpecPC == InitPC /\ [][NextPC]_vars

InitAN == ANInit /\ LSIdle /\ WCIdle /\ PCIdle /\ RCIdle /\ OthersIdle

NextAN == ANStep \/ ANReturn

SpecAN == InitAN /\ [][NextAN]_vars

InitRC == RCInit /\ LSIdle /\ WCIdle /\ PCIdle /\ ANIdle /\ OthersIdle

NextRC == RCRotate \/ RCRotateBack

SpecRC == InitRC /\ [][NextRC]_vars

InitCL == CLInit /\ WordIdle /\ HGIdle /\ RWIdle /\ TMIdle /\ GIIdle /\ LKIdle

NextCL ==
    \/ CLSemordnilap
    \/ CLRotodromes
    \/ CLAlmostPalindromes
    \/ CLTripleDuplicate
    \/ CLConsecTripleDuplicate

SpecCL == InitCL /\ [][NextCL]_vars

InitHG == HGInit /\ WordIdle /\ CLIdle /\ RWIdle /\ TMIdle /\ GIIdle /\ LKIdle

NextHG == HGCount \/ HGCountPermuted

SpecHG == InitHG /\ [][NextHG]_vars

InitRW == RWInit /\ WordIdle /\ CLIdle /\ HGIdle /\ TMIdle /\ GIIdle /\ LKIdle

NextRW == RWLevel

SpecRW == InitRW /\ [][NextRW]_vars

InitTM == TMInit /\ WordIdle /\ CLIdle /\ HGIdle /\ RWIdle /\ GIIdle /\ LKIdle

NextTM ==
    \/ TMAddEntry
    \/ TMUpdateTimestamp
    \/ TMRemoveTimestamp
    \/ TMGetNewestEntry
    \/ TMGetOldestEntry

SpecTM == InitTM /\ [][NextTM]_vars

InitGI == GIInit /\ WordIdle /\ CLIdle /\ HGIdle /\ RWIdle /\ TMIdle /\ LKIdle

NextGI == GIEnter \/ GIVisit \/ GIReturn

SpecGI == InitGI /\ [][NextGI]_vars

InitLK == LKInit /\ WordIdle /\ CLIdle /\ HGIdle /\ RWIdle /\ TMIdle /\ GIIdle

NextLK == LKTrigger \/ LKGetCount

SpecLK == InitLK /\ [][NextLK]_vars

(***************************************************************************)
(* Properties of longest_substring_with_k_chars                            *)
(***************************************************************************)

\* Every contiguous substring of t, as (start, length) with 0-based start.
Windows(t) == {w \in (0..Len(t)) \X (0..Len(t)) : w[1] + w[2] <= Len(t)}

\* C1: for k >= 1 the value returned is a contiguous substring of text with at
\* most k distinct characters, and no contiguous substring of text with at
\* most k distinct characters is longer.
LS_C1_Longest ==
    (lsPc = "done" /\ k >= 1) =>
        /\ \E w \in Windows(text) : lsResult = Slice(text, w[1], w[2])
        /\ Distinct(lsResult) <= k
        /\ \A w \in Windows(text) :
              Distinct(Slice(text, w[1], w[2])) <= k => w[2] <= Len(lsResult)

\* ("eceba", 2) has returned "ece": a character was evicted on the way.
LS_C1_Witness ==
    /\ lsPc = "done"
    /\ text = <<Ord.e, Ord.c, Ord.e, Ord.b, Ord.a>>
    /\ k = 2
    /\ lsResult = <<Ord.e, Ord.c, Ord.e>>

\* The substrings of t with at most kk distinct characters that no other
\* such substring exceeds in length, as (start, length).
LongestWindows(t, kk) ==
    LET valid == {w \in Windows(t) : Distinct(Slice(t, w[1], w[2])) <= kk}
    IN  {w \in valid : \A v \in valid : v[2] <= w[2]}

\* C18: of the substrings with at most k distinct characters that share the
\* maximal length, the one returned is the one with the smallest start index.
LS_C18_FirstOfTheLongest ==
    (lsPc = "done" /\ k >= 1) =>
        \A w \in LongestWindows(text, k) :
            w[2] > 0 =>
                /\ maxpos <= w[1]
                /\ <<maxpos, max_>> \in LongestWindows(text, k)
                /\ lsResult = Slice(text, maxpos, max_)

\* The call has returned the first of two different substrings of the
\* maximal length, the later of which does not begin the text again.
LS_C18_Witness ==
    /\ lsPc = "done"
    /\ k >= 1
    /\ \E v, w \in LongestWindows(text, k) :
           /\ v[1] < w[1]
           /\ Slice(text, v[1], v[2]) # Slice(text, w[1], w[2])
           /\ lsResult = Slice(text, v[1], v[2])
           /\ maxpos = v[1]

\* C2: with k = 0 (any text) or with the empty text (any k) the call ends by
\* returning the empty string, never by raising.
LS_C2_EmptyWithoutError ==
    (lsPc # "loop" /\ (k = 0 \/ text = <<>>)) =>
        (lsPc = "done" /\ lsResult = <<>>)

(***************************************************************************)
(* Properties of word_chain                                                *)
(***************************************************************************)

\* c may follow prev in a chain over the list ws: a word of ws that starts
\* with prev[k:], longer than len(prev) - k.
Links(ws, prev, c, kk) ==
    /\ c \in Range(ws)
    /\ StartsWith(c, DropFirst(prev, kk))
    /\ Len(c) > Len(prev) - kk

NoRepeat(ch) == \A p, q \in DOMAIN ch : p # q => ch[p] # ch[q]

\* Some chain of n words extends ch by linked words without a repeat.
RECURSIVE Completable(_, _, _, _)
Completable(ws, ch, kk, n) ==
    IF Len(ch) >= n THEN Len(ch) = n
    ELSE \E c \in Range(ws) :
            /\ Links(ws, ch[Len(ch)], c, kk)
            /\ c \notin Range(ch)
            /\ Completable(ws, Append(ch, c), kk, n)

\* The call is one the contract of word_chain covers.
WCPre == IsSorted(words) /\ first # <<>> /\ NoRepeat(first) /\ Len(first) <= wcLen

\* C3: a chain returned for a sorted list and a seed no longer than len_ has
\* exactly len_ elements, starts with the seed, holds no word twice, and each
\* element after the seed is a word of the list that starts with prev[k:] and
\* is longer than len(prev) - k.
WC_C3_ReturnedChainIsValid ==
    (wcPc = "done" /\ wcResult = "chain" /\ WCPre) =>
        /\ Len(chain) = wcLen
        /\ SubSeq(chain, 1, Len(first)) = first
        /\ NoRepeat(chain)
        /\ \A j \in Len(first) + 1..Len(chain) :
              Links(words, chain[j - 1], chain[j], wcK)

\* A chain of three was returned although an earlier candidate for the second
\* place had been accepted first: it was tried and popped again.
WC_C3_Witness ==
    /\ wcPc = "done"
    /\ wcResult = "chain"
    /\ WCPre
    /\ Len(first) = 1
    /\ Len(chain) = 3
    /\ \E j \in DOMAIN words :
          /\ StrLess(words[j], chain[2])
          /\ Links(words, first[1], words[j], wcK)
          /\ words[j] # first[1]

\* C4: on a sorted list None is returned only if no chain of len_ words
\* extends the seed by linked, unrepeated words of the list (stated for the
\* calls with k >= 1, the ones the toolkit makes).
WC_C4_NoneOnlyIfNoChain ==
    (wcPc = "done" /\ wcResult = "None" /\ WCPre /\ wcK >= 1) =>
        ~Completable(words, first, wcK, wcLen)

\* C5: on any list, sorted or not, with a non-empty seed, k >= 0 and any
\* len_, no step of the call raises, and a call that ends without a chain has
\* returned None.
WC_C5_NoneIsReturned ==
    (first # <<>> /\ wcK >= 0) =>
        /\ wcPc # "IndexError"
        /\ wcResult # "raised"
        /\ (wcPc = "done" /\ wcResult # "chain") => wcResult = "None"

\* An unsorted list was searched with a seed longer than nothing it could
\* reach: a candidate of the first range was appended, popped again, and None
\* came back.
WC_C5_Witness ==
    /\ wcPc = "done"
    /\ wcResult = "None"
    /\ ~IsSorted(words)
    /\ chain = first
    /\ \E j \in DOMAIN words :
          /\ RangeStart(words, Suffix(first, wcK)) <= j - 1
          /\ j - 1 < RangeEnd(words, Suffix(first, wcK), wcK)
          /\ Accepts(words[j], first, wcK)

\* C6: on a sorted list the index range [start, end) of every candidate loop
\* covers exactly the words that start with the suffix looked up (stated for
\* the calls with k >= 1, the ones the toolkit makes).
WC_C6_RangeIsPrefixRange ==
    (wcPc = "loop" /\ IsSorted(words) /\ wcK >= 1) =>
        LET top == stack[Len(stack)]
            suffix == Suffix(chain, wcK)
        IN  \A j \in DOMAIN words :
              StartsWith(words[j], suffix) <=> (top.start <= j - 1 /\ j - 1 < top.end)

(***************************************************************************)
(* Properties of prime_code and all_anagrams                               *)
(***************************************************************************)

\* The word is spelled with the letters a-z only.
IsAZ(word) == \A j \in DOMAIN word : word[j] \in Ord.a..Ord.z

Count(word, ch) == Cardinality({j \in DOMAIN word : word[j] = ch})

\* The same letters with the same multiplicities.
Anagrams(u, v) == \A ch \in Range(u) \cup Range(v) : Count(u, ch) = Count(v, ch)

IsPrime(n) == n >= 2 /\ \A d \in 2..n - 1 : n % d # 0

\* C7: two words over a-z get the same prime code if and only if they hold
\* the same letters with the same multiplicities; the table the codes are
\* built from gives each of the 26 letters a prime of its own.
PC_C7_SameCodeIffAnagrams ==
    (pcPc = "done" /\ IsAZ(pcU) /\ IsAZ(pcV)) =>
        /\ ~pcCodeU.raised
        /\ ~pcCodeV.raised
        /\ (pcCodeU.code = pcCodeV.code) <=> Anagrams(pcU, pcV)
        /\ Len(Primes) = Ord.z - Ord.a + 1
        /\ \A p \in DOMAIN Primes :
              /\ IsPrime(Primes[p])
              /\ \A q \in DOMAIN Primes : Primes[p] = Primes[q] => p = q

\* Two different words that are anagrams of each other were encoded alike.
PC_C7_Witness ==
    /\ pcPc = "done"
    /\ pcU = <<Ord.a, Ord.b>>
    /\ pcV = <<Ord.b, Ord.a>>
    /\ pcCodeU = [raised |-> FALSE, code |-> 6]
    /\ pcCodeV = pcCodeU

\* C8: a word with a character outside a-z makes prime_code raise, so it never
\* gets a code, let alone the code of a word over a-z.
PC_C8_UnsupportedCharacterRaises ==
    (pcPc = "done" /\ ~IsAZ(pcU)) =>
        /\ pcCodeU.raised
        /\ IsAZ(pcV) => (pcCodeV.raised \/ pcCodeV.code # pcCodeU.code)

\* The words of ws whose code is c, in the order of ws.
WithCode(ws, c) ==
    LET HasCode(w) == prime_code(w) = [raised |-> FALSE, code |-> c]
    IN  SelectSeq(ws, HasCode)

\* C9: the mapping returned partitions the input: each list is keyed by the
\* prime code of its words and holds exactly the input occurrences with that
\* code in input order, every input word's code is a key, and two words over
\* a-z share a list if and only if they are anagrams.
AN_C9_GroupsPartitionInput ==
    anPc = "done" =>
        /\ \A j \in DOMAIN anWords :
              /\ ~prime_code(anWords[j]).raised
              /\ prime_code(anWords[j]).code \in DOMAIN codes
        /\ \A c \in DOMAIN codes :
              /\ codes[c] # <<>>
              /\ codes[c] = WithCode(anWords, c)
        /\ \A p, q \in DOMAIN anWords :
              (IsAZ(anWords[p]) /\ IsAZ(anWords[q])) =>
                  ((\E c \in DOMAIN codes :
                        anWords[p] \in Range(codes[c]) /\ anWords[q] \in Range(codes[c]))
                    <=> Anagrams(anWords[p], anWords[q]))

\* The example list was grouped: bca, abc, cab under 30 and xyz alone.
AN_C9_Witness ==
    /\ anPc = "done"
    /\ anWords = ANExample
    /\ DOMAIN codes = {30, 871933}
    /\ codes[30] = SubSeq(ANExample, 1, 3)
    /\ codes[871933] = SubSeq(ANExample, 4, 4)

(***************************************************************************)
(* Properties of rotate_consonants                                         *)
(***************************************************************************)

\* C10: rotating the consonants by an offset and then by its negation gives
\* the text back, for offsets of either sign and beyond the consonant count.
RC_C10_RoundTrip ==
    /\ rcPc # "ZeroDivisionError"
    /\ rcPc = "restored" => rcBack = rcText

\* A text with consonants of both cases was changed by a negative offset
\* larger than its consonant count and restored.
RC_C10_Witness ==
    /\ rcPc = "restored"
    /\ rcBack = rcText
    /\ rcOut # rcText
    /\ rcOff < 0
    /\ -rcOff > Len(ConsPos(rcText))
    /\ \E p, q \in DOMAIN rcText :
          /\ rcText[p] \in Cons /\ IsUpper(rcText[p])
          /\ rcText[q] \in Cons /\ ~IsUpper(rcText[q])

\* The vowels of both cases.
Vowels == {Ord.a, Ord.e, Ord.i, Ord.o, Ord.u, Ord.A, Ord.E, Ord.I, Ord.O, Ord.U}

IsLetter(ch) == ch \in 65..90 \/ ch \in 97..122

\* No character of the text is a letter other than a vowel.
NoConsonant(t) == \A j \in DOMAIN t : IsLetter(t[j]) => t[j] \in Vowels

\* C11: a text without consonants, the empty text included, comes back
\* unchanged from rotate_consonants for every offset, and the call raises no
\* ZeroDivisionError.
RC_C11_NoConsonantUnchanged ==
    NoConsonant(rcText) =>
        /\ rcPc # "ZeroDivisionError"
        /\ rcPc \in {"rotated", "restored"} => rcOut = rcText
        /\ rcPc = "restored" => rcBack = rcText

RC_C11_Witness ==
    /\ rcPc = "rotated"
    /\ \E j \in DOMAIN rcText : rcText[j] \in Vowels
    /\ NoConsonant(rcText)
    /\ rcOff # 0
    /\ rcOut = rcText

(***************************************************************************)
(* Properties of remain_words                                              *)
(***************************************************************************)

\* The words level n of the table holds: the list at level 1, the keys of
\* the dict at the later levels, nothing at a level that was not built.
LevelWords(result, n) ==
    IF n + 1 > Len(result) THEN {}
    ELSE IF n = 1 THEN Range(result[n + 1])
    ELSE DOMAIN result[n + 1]

\* C12: when remain_words has returned, every input word w of length L >= 2
\* and every deletion position 0 <= idx < L, the last one included, are such
\* that w without its character idx, if level L-1 holds it, is among the
\* elimination targets recorded for w in level L.
RW_C12_EveryDeletionRecorded ==
    rwPc = "done" =>
        \A n \in DOMAIN rwWords :
            LET w == rwWords[n]
                L == Len(w)
            IN  L >= 2 =>
                    \A idx \in 0..L - 1 :
                        Without(w, idx) \in LevelWords(rwResult, L - 1) =>
                            /\ w \in LevelWords(rwResult, L)
                            /\ Without(w, idx) \in Range(rwResult[L + 1][w])

(***************************************************************************)
(* Properties of the word classifiers                                      *)
(***************************************************************************)

\* out holds, in the order of ws, exactly the words that stand in ws at the
\* positions kept.
IsSelection(out, ws, kept) ==
    /\ kept \subseteq DOMAIN ws
    /\ Len(out) = Cardinality(kept)
    /\ \A n \in DOMAIN out :
           \E j \in kept :
               /\ Cardinality({m \in kept : m < j}) = n - 1
               /\ out[n] = ws[j]

\* w read from its character off (0-based) on, around the end.
Rotated(w, off) == [j \in 1..Len(w) |-> w[((j - 1 + off) % Len(w)) + 1]]

\* Some offset of offs turns w into another word that is a word of ws.
RotatesInto(w, ws, offs) ==
    \E off \in offs :
        /\ Rotated(w, off) # w
        /\ \E j \in DOMAIN ws : ws[j] = Rotated(w, off)

\* C13, as amended: rotodromes returns, in input order, exactly the words w
\* that some rotation offset 1 <= off < len(w) turns into a different word
\* of the input.
CL_C13_RotodromesUpToLastOffset ==
    clPc = "rotodromes" =>
        LET keep(w) == RotatesInto(w, clWords, {off \in 1..Len(w) : off < Len(w)})
        IN  IsSelection(clOut, clWords, {j \in DOMAIN clWords : keep(clWords[j])})

\* C13, as stated: the offsets are those with 1 <= off < len(w) - 1.
CL_C13_RotodromesAsStated ==
    clPc = "rotodromes" =>
        LET keep(w) == RotatesInto(w, clWords, {off \in 1..Len(w) : off < Len(w) - 1})
        IN  IsSelection(clOut, clWords, {j \in DOMAIN clWords : keep(clWords[j])})

\* rotodromes has returned a word of three letters or more that only its
\* last offset, len(w) - 1, turns into a word of the input.
CL_C13_Witness ==
    /\ clPc = "rotodromes"
    /\ \E n \in DOMAIN clOut :
           /\ Len(clOut[n]) >= 3
           /\ RotatesInto(clOut[n], clWords, {Len(clOut[n]) - 1})
           /\ ~RotatesInto(clOut[n], clWords, 1..Len(clOut[n]) - 2)

\* u is v read backwards.
IsReverseOf(u, v) ==
    Len(u) = Len(v) /\ \A j \in DOMAIN u : u[j] = v[Len(v) + 1 - j]

IsPalindrome(w) == IsReverseOf(w, w)

\* C14: semordnilap returns, in input order, exactly the input words that
\* differ from their reverse and whose reverse is an input word; no palindrome
\* is returned, and the reverse of every returned word is returned as well.
CL_C14_Semordnilap ==
    clPc = "semordnilap" =>
        LET keep(w) ==
                /\ ~IsPalindrome(w)
                /\ \E j \in DOMAIN clWords : IsReverseOf(clWords[j], w)
        IN  /\ IsSelection(clOut, clWords, {j \in DOMAIN clWords : keep(clWords[j])})
            /\ \A n \in DOMAIN clOut : ~IsPalindrome(clOut[n])
            /\ \A n \in DOMAIN clOut :
                   \E m \in DOMAIN clOut : IsReverseOf(clOut[m], clOut[n])

\* semordnilap has returned a word and its reverse.
CL_C14_Witness ==
    /\ clPc = "semordnilap"
    /\ Len(clOut) = 2
    /\ clOut[1] # clOut[2]
    /\ IsReverseOf(clOut[1], clOut[2])

\* w without its character idx (0-based) reads the same in both directions.
PalindromeWithout(w, idx) ==
    LET at(j) == IF j <= idx THEN w[j] ELSE w[j + 1]
    IN  \A j \in 1..Len(w) - 1 : at(j) = at(Len(w) - j)

\* C15: almost_palindromes returns exactly the input words of more than two
\* characters that are no palindromes and that the deletion of the character
\* at some position 0..len(w)-1 turns into a palindrome.
CL_C15_AlmostPalindromes ==
    clPc = "almost_palindromes" =>
        LET keep(w) ==
                /\ Len(w) > 2
                /\ ~IsPalindrome(w)
                /\ \E idx \in 0..Len(w) - 1 : PalindromeWithout(w, idx)
        IN  IsSelection(clOut, clWords, {j \in DOMAIN clWords : keep(clWords[j])})

\* almost_palindromes has returned one of two words, the other being a word
\* of more than two characters that is no palindrome either.
CL_C15_Witness ==
    /\ clPc = "almost_palindromes"
    /\ Len(clWords) = 2
    /\ Len(clOut) = 1
    /\ \A n \in DOMAIN clWords : Len(clWords[n]) > 2 /\ ~IsPalindrome(clWords[n])

\* The first position of the run of equal characters that position m of w
\* lies in.
RunStart(w, m) == Max({j \in 1..m : j = 1 \/ w[j] # w[j - 1]})

\* The pairs a scan that never reuses a character finds: a run of n equal
\* characters holds n \div 2 of them, closed at the odd offsets of the run.
PairsInRuns(w) ==
    Cardinality({m \in DOMAIN w : (m - RunStart(w, m)) % 2 = 1})

\* "aaa", "aaaa", "bookkeeper", "hello"
PairExample(n) ==
    CHOOSE w \in PairExamples :
        \/ n = 1 /\ Len(w) = 3
        \/ n = 2 /\ Len(w) = 4
        \/ n = 3 /\ Len(w) = 10
        \/ n = 4 /\ Len(w) = 5

\* C16: triple_duplicate returns exactly the input words in which the scan
\* from the left, resuming two characters behind the start of a matched
\* pair, finds three pairs or more; it finds 1 in "aaa", 2 in "aaaa", 3 in
\* "bookkeeper" and fewer than 3 in "hello".
CL_C16_TripleDuplicate ==
    clPc = "triple_duplicate" =>
        LET keep(w) == PairsInRuns(w) >= 3
        IN  /\ IsSelection(clOut, clWords, {j \in DOMAIN clWords : keep(clWords[j])})
            /\ PairsInRuns(PairExample(1)) = 1
            /\ PairsInRuns(PairExample(2)) = 2
            /\ PairsInRuns(PairExample(3)) = 3
            /\ PairsInRuns(PairExample(4)) < 3
            /\ \A n \in DOMAIN clWords :
                   /\ clWords[n] = PairExample(3) =>
                          \E m \in DOMAIN clOut : clOut[m] = clWords[n]
                   /\ clWords[n] \in {PairExample(1), PairExample(2), PairExample(4)} =>
                          \A m \in DOMAIN clOut : clOut[m] # clWords[n]

\* triple_duplicate has returned "bookkeeper" and left out the word it was
\* given with it.
CL_C16_Witness ==
    /\ clPc = "triple_duplicate"
    /\ Len(clWords) = 2
    /\ clOut = <<PairExample(3)>>

(***************************************************************************)
(* Properties of histogram                                                 *)
(***************************************************************************)

\* The places (word, character), both 1-based, at which ch stands in ws.
Places(ws, ch) ==
    UNION {{<<n, j>> : j \in {m \in DOMAIN ws[n] : ws[n][m] = ch}} : n \in DOMAIN ws}

\* C17: histogram maps each character that occurs in the words to the number
\* of its occurrences over all words, has no key for a character that does
\* not occur, and returns the same mapping for the words in any other order.
HG_C17_CountsWhateverTheOrder ==
    /\ hgPc \in {"counted", "done"} =>
           /\ DOMAIN hgOut = UNION {Range(hgWords[n]) : n \in DOMAIN hgWords}
           /\ \A ch \in DOMAIN hgOut : hgOut[ch] = Cardinality(Places(hgWords, ch))
    /\ hgPc = "done" => hgOutPerm = hgOut

\* histogram has been called on a list and on a different order of it; a
\* character occurs in more than one word, another in none.
HG_C17_Witness ==
    /\ hgPc = "done"
    /\ hgPerm # hgWords
    /\ \E ch \in DOMAIN hgOut :
           /\ hgOut[ch] >= 3
           /\ \E m, n \in DOMAIN hgWords :
                  m # n /\ ch \in Range(hgWords[m]) /\ ch \in Range(hgWords[n])
    /\ HistAlphabet \ DOMAIN hgOut # {}

(***************************************************************************)
(* Properties of TimestampManager                                          *)
(***************************************************************************)

\* The keys whose entry has a timestamp.
Timestamped(data) == {key \in DOMAIN data : "timestamp" \in DOMAIN data[key]}

\* C19: after any sequence of add_entry, update_timestamp and
\* remove_timestamp calls, with any keys, the empty string included,
\* get_newest_entry (get_oldest_entry) returns (None, None) exactly when no
\* entry has a timestamp, and otherwise a key and its entry whose timestamp
\* no timestamped entry exceeds (falls below).
TM_C19_NewestAndOldestFound ==
    /\ tmRet.fn \in {"get_newest_entry", "get_oldest_entry"} =>
           /\ tmRet.none <=> Timestamped(tmData) = {}
           /\ ~tmRet.none =>
                  /\ tmRet.key \in Timestamped(tmData)
                  /\ tmRet.entry = tmData[tmRet.key]
    /\ (tmRet.fn = "get_newest_entry" /\ ~tmRet.none) =>
           \A key \in Timestamped(tmData) :
               tmData[key].timestamp <= tmRet.entry.timestamp
    /\ (tmRet.fn = "get_oldest_entry" /\ ~tmRet.none) =>
           \A key \in Timestamped(tmData) :
               tmData[key].timestamp >= tmRet.entry.timestamp

(***************************************************************************)
(* Properties of count_islands                                             *)
(***************************************************************************)

\* The cells of g, as (row, column) from 1, and those holding '1'.
Cells(g) == (1..Len(g)) \X (1..Len(g[1]))

Land(g) == {c \in Cells(g) : g[c[1]][c[2]] = "1"}

\* Two cells are neighbours when they differ by one step up, right, down or
\* left.
Neighbours(c, d) ==
    \/ c[1] = d[1] /\ (c[2] = d[2] + 1 \/ d[2] = c[2] + 1)
    \/ c[2] = d[2] /\ (c[1] = d[1] + 1 \/ d[1] = c[1] + 1)

\* The land cells joined to those of S by chains of neighbouring land cells.
RECURSIVE Joined(_, _)
Joined(S, land) ==
    LET more == S \cup {d \in land : \E c \in S : Neighbours(c, d)}
    IN  IF more = S THEN S ELSE Joined(more, land)

\* The connected components of the '1' cells of g.
Islands(g) == {Joined({c}, Land(g)) : c \in Land(g)}

\* C20: on a grid of '0' and '1' cells with at least one row and one column,
\* count_islands returns the number of connected components of the '1' cells
\* under adjacency up, right, down and left, and leaves every cell of the grid
\* it was given '0'; the three grids of test_grids give 1, 3 and 8.
GI_C20_CountsIslandsAndClears ==
    (giPc = "done" /\ giInput # <<>> /\ giInput[1] # <<>>) =>
        /\ count = Cardinality(Islands(giInput))
        /\ DOMAIN grid = DOMAIN giInput
        /\ \A r \in DOMAIN grid :
               /\ DOMAIN grid[r] = DOMAIN giInput[r]
               /\ \A col \in DOMAIN grid[r] : grid[r][col] = "0"
        /\ giInput = test_grids[1] => count = 1
        /\ giInput = test_grids[2] => count = 3
        /\ giInput = test_grids[3] => count = 8

\* The call on the second of test_grids has returned 3: an island of four
\* cells, one of one cell and one of two were found and cleared.
GI_C20_Witness ==
    /\ giPc = "done"
    /\ giInput = test_grids[2]
    /\ count = 3
    /\ \E island \in Islands(giInput) : Cardinality(island) = 4
    /\ grid # giInput

(***************************************************************************)
(* Properties of rotate_consonants: positions and case                     *)
(***************************************************************************)

\* The positions (1-based) of t that hold a consonant.
ConsonantPlaces(t) == {p \in DOMAIN t : IsLetter(t[p]) /\ t[p] \notin Vowels}

\* The same letter, in the same or in the other case.
SameLetter(ch, dh) == IsLetter(ch) /\ IsLetter(dh) /\ ch - dh \in {-32, 0, 32}

\* out has the length of t, holds the character of t wherever t has no
\* consonant, and holds at the j-th consonant place of t the letter of the
\* consonant number (j + off) mod n of t, in the case t has at that place.
IsRotationOf(out, t, off) ==
    LET places == ConsonantPlaces(t)
        n == Cardinality(places)
        rank(p) == Cardinality({q \in places : q < p})
    IN  /\ Len(out) = Len(t)
        /\ \A p \in DOMAIN t :
               IF p \notin places THEN out[p] = t[p]
               ELSE /\ \E q \in places :
                           /\ (rank(q) - rank(p) - off) % n = 0
                           /\ SameLetter(out[p], t[q])
                    /\ out[p] \in 65..90 <=> t[p] \in 65..90

\* C21: for every text and offset the text rotate_consonants returns has the
\* same length, keeps every character that is no consonant, and holds at the
\* j-th consonant position the letter of the original consonant number
\* (j + offset) mod n, upper case exactly where the original character was.
RC_C21_RotatesLettersKeepsCase ==
    /\ rcPc \in {"rotated", "restored"} => IsRotationOf(rcOut, rcText, rcOff)
    /\ rcPc = "restored" => IsRotationOf(rcBack, rcOut, -rcOff)

\* A text with a vowel and consonants of both cases and of different letters
\* was rotated by a negative offset, and came out changed.
RC_C21_Witness ==
    /\ rcPc = "rotated"
    /\ rcOff < 0
    /\ rcOut # rcText
    /\ \E p \in DOMAIN rcText : rcText[p] \in Vowels
    /\ \E p, q \in ConsonantPlaces(rcText) :
           /\ rcText[p] \in 65..90
           /\ rcText[q] \in 97..122
           /\ ~SameLetter(rcText[p], rcText[q])
           /\ SameLetter(rcOut[p], rcText[q])

(***************************************************************************)
(* Properties of consec_triple_duplicate                                   *)
(***************************************************************************)

\* w[idx] == w[idx+1], w[idx+2] == w[idx+3] and w[idx+4] == w[idx+5], idx
\* counted from 0.
DoubledThriceAt(w, idx) ==
    /\ idx + 6 <= Len(w)
    /\ \A d \in {0, 2, 4} : w[idx + d + 1] = w[idx + d + 2]

DoubledThrice(w) == \E idx \in 0..Len(w) : DoubledThriceAt(w, idx)

\* The word is among those returned.
IsReturned(w) == \E m \in DOMAIN clOut : clOut[m] = w

\* consec_triple_duplicate returns exactly the words with an index at which
\* three doubled characters follow one another, alike or not.
ConsecSelection ==
    /\ IsSelection(clOut, clWords, {j \in DOMAIN clWords : DoubledThrice(clWords[j])})
    /\ \A n \in DOMAIN clWords :
           (Len(clWords[n]) = 6 /\ \A j \in 1..6 : clWords[n][j] = Ord.a) =>
               IsReturned(clWords[n])

CL_C29_ConsecWithinTriple ==
    clPc = "consec_triple_duplicate" =>
        \A n \in DOMAIN clOut :
            /\ FindAllPairs(clOut[n], 1, 0) >= 3
            /\ \E m \in DOMAIN triple_duplicate(clWords) :
                   triple_duplicate(clWords)[m] = clOut[n]

\* consec_triple_duplicate has returned a word whose three doubled characters
\* begin at its second character, behind a copy of the first of them, so that
\* the scan for pairs takes its first pair across the beginning of the three.
CL_C29_Witness ==
    /\ clPc = "consec_triple_duplicate"
    /\ \E n \in DOMAIN clOut :
           /\ DoubledThriceAt(clOut[n], 1)
           /\ ~DoubledThriceAt(clOut[n], 0)
           /\ clOut[n][1] = clOut[n][2]

(***************************************************************************)
(* Properties of remain_words: the levels of the table                     *)
(***************************************************************************)

\* Some input word of length L turns, by the removal of one of its L
\* characters, into a word that level L-1 of the table holds.
SomeWordEliminates(ws, result, L) ==
    \E n \in DOMAIN ws :
        /\ Len(ws[n]) = L
        /\ \E idx \in 0..L - 1 : Without(ws[n], idx) \in LevelWords(result, L - 1)

\* C23: the list remain_words returns holds the levels 0..M, where M+1 is the
\* smallest length >= 2 at which no input word has a valid elimination
\* target; every level from 2 on is a non-empty mapping whose keys each map
\* to one target or more, and no word longer than M appears in the table.
RW_C23_LevelsStopAtFirstEmpty ==
    rwPc = "done" =>
        LET M == Len(rwResult) - 1 IN
        /\ M >= 1
        /\ \A L \in 2..M : SomeWordEliminates(rwWords, rwResult, L)
        /\ ~SomeWordEliminates(rwWords, rwResult, M + 1)
        /\ \A L \in 2..M :
               /\ DOMAIN rwResult[L + 1] # {}
               /\ \A w \in DOMAIN rwResult[L + 1] : Len(rwResult[L + 1][w]) >= 1
        /\ \A L \in 1..M :
               \A w \in LevelWords(rwResult, L) : Len(w) <= M

\* Every chain of listed targets from w at level L leads, key by key, down to
\* a one-letter word of level 1.
RECURSIVE LeadsDown(_, _, _)
LeadsDown(w, L, result) ==
    IF L = 1 THEN Len(w) = 1 /\ w \in Range(result[2])
    ELSE /\ w \in DOMAIN result[L + 1]
         /\ \A n \in DOMAIN result[L + 1][w] :
                LeadsDown(result[L + 1][w][n], L - 1, result)

\* C27: in the table, every target listed at a level L >= 3 is a key of level
\* L-1 and every target listed at level 2 is a one-letter word of level 1, so
\* that following listed targets from any key of any level reaches a
\* one-letter word and never looks up a key that is missing.
RW_C27_TargetsAreKeysBelow ==
    \A L \in 2..Len(rwResult) - 1 :
        \A w \in DOMAIN rwResult[L + 1] :
            /\ \A n \in DOMAIN rwResult[L + 1][w] :
                   LET target == rwResult[L + 1][w][n] IN
                   /\ Len(target) = L - 1
                   /\ IF L = 2 THEN target \in Range(rwResult[2])
                      ELSE target \in DOMAIN rwResult[L]
            /\ LeadsDown(w, L, rwResult)

\* remain_words has returned a table with a level 3 whose words go down to
\* level 1 through level 2, from an input with a one-letter word.
RW_C27_Witness ==
    /\ rwPc = "done"
    /\ Len(rwResult) = 4
    /\ \E w \in DOMAIN rwResult[4] :
           /\ Len(w) = 3
           /\ LeadsDown(w, 3, rwResult)
           /\ Len(rwResult[3][rwResult[4][w][1]]) >= 1

(***************************************************************************)
(* word_chain: order of the search, frame and termination                  *)
(***************************************************************************)

\* The chain that the list indexes ixs (0-based) add to the seed, one by one.
RECURSIVE Extended(_, _)
Extended(ch, ixs) ==
    IF ixs = <<>> THEN ch
    ELSE Extended(Append(ch, words[ixs[1] + 1]), DropFirst(ixs, 1))

\* The candidates of the call on the chain ch: the indexes of the range
\* searched whose word is accepted.
Candidates(ch) ==
    LET suffix == DropFirst(ch[Len(ch)], wcK)
    IN  {ix \in 0..Len(words) - 1 :
            /\ ix >= RangeStart(words, suffix)
            /\ ix < RangeEnd(words, suffix, wcK)
            /\ Accepts(words[ix + 1], ch, wcK)}

\* Every index of ixs is a candidate of the call it is tried in.
IsPath(ixs) ==
    \A n \in 1..Len(ixs) :
        ixs[n] \in Candidates(Extended(first, SubSeq(ixs, 1, n - 1)))

\* The paths of n candidates, each tried in the call the one before opens,
\* that start from the chain ch.
RECURSIVE PathsFrom(_, _)
PathsFrom(ch, n) ==
    IF n = 0 THEN {<<>>}
    ELSE UNION {{<<ix>> \o rest : rest \in PathsFrom(Append(ch, words[ix + 1]), n - 1)} :
                   ix \in Candidates(ch)}

\* Paths that complete the seed to a chain of len_ words.
CompletePaths ==
    IF Len(first) > wcLen THEN {} ELSE PathsFrom(first, wcLen - Len(first))

\* a is met before b by a depth-first search that tries ascending indexes.
MetBefore(a, b) ==
    \E p \in DOMAIN a :
        /\ p \in DOMAIN b
        /\ a[p] < b[p]
        /\ \A q \in 1..p - 1 : a[q] = b[q]

\* C24: the search tries the candidates in ascending index order, depth
\* first, and returns the first complete chain met in that order (None when
\* there is none); word_chain(["ab","ba","abc"], ["ab"], 1, 2) returns
\* ["ab","ba"].
WC_C24_FirstChainInIndexOrder ==
    (wcPc = "done" /\ first # <<>>) =>
        /\ wcResult = "None" => CompletePaths = {}
        /\ wcResult = "chain" =>
              \E ixs \in CompletePaths :
                  /\ chain = Extended(first, ixs)
                  /\ \A other \in CompletePaths : ~MetBefore(other, ixs)
        /\ (/\ words = <<<<Ord.a, Ord.b>>, <<Ord.b, Ord.a>>,
                         <<Ord.a, Ord.b, Ord.c>>>>
            /\ first = <<<<Ord.a, Ord.b>>>>
            /\ wcK = 1
            /\ wcLen = 2) =>
              /\ wcResult = "chain"
              /\ chain = <<<<Ord.a, Ord.b>>, <<Ord.b, Ord.a>>>>

\* A chain was returned while another complete chain, met later in index
\* order, exists as well.
WC_C24_Witness ==
    /\ wcPc = "done"
    /\ wcResult = "chain"
    /\ \E a, b \in CompletePaths : chain = Extended(first, a) /\ MetBefore(a, b)

\* C25: no step of word_chain changes the word list; when the call returns
\* None the chain list holds exactly the elements of the seed at the call,
\* and when it returns a chain that chain is the seed list extended in place.
WC_C25_ListUntouchedSeedRestored ==
    [][/\ words' = words
       /\ first' = first
       /\ (wcPc' = "done" /\ wcResult' = "None") => chain' = first
       /\ (wcPc' = "done" /\ wcResult' = "chain") =>
              /\ Len(chain') >= Len(first)
              /\ SubSeq(chain', 1, Len(first)) = first]_vars

\* None was returned after a word had been appended to the seed and popped
\* again.
WC_C25_Witness ==
    /\ wcPc = "done"
    /\ wcResult = "None"
    /\ chain = first
    /\ \E ixs \in [1..1 -> 0..Len(words) - 1] : IsPath(ixs)

\* C26: every call with a non-empty seed terminates, a seed longer than len_
\* included, and the chain never holds more words than the seed and the
\* distinct words of the list together.
WC_C26_Terminates ==
    /\ [](Len(chain) <= Len(first) + Cardinality(Range(words)))
    /\ (first # <<>>) ~> (wcPc = "done")

\* The search for a seed already longer than len_ ended with None after it
\* had appended a word.
WC_C26_Witness ==
    /\ wcPc = "done"
    /\ wcResult = "None"
    /\ Len(first) > wcLen
    /\ \E ixs \in [1..1 -> 0..Len(words) - 1] : IsPath(ixs)

(***************************************************************************)
(* longest_substring_with_k_chars: what holds after each character         *)
(***************************************************************************)

\* The 0-based indexes of the run that ends at the character processed last:
\* i characters are done, the last one at index i - 1.
RunIndexes == (i - len_)..(i - 1)

\* C28: with k >= 1, after each character: last_seen has at most k keys; its
\* keys are the distinct characters of the current run, each with its last
\* index in the run; the run is the longest suffix of the text processed so
\* far with at most k distinct characters; and max_ >= len_.
LS_C28_RunTracked ==
    (lsPc \in {"loop", "done"} /\ k >= 1 /\ i >= 1) =>
        /\ len_ \in 1..i
        /\ Cardinality(DOMAIN last_seen) <= k
        /\ DOMAIN last_seen = {text[j + 1] : j \in RunIndexes}
        /\ \A x \in DOMAIN last_seen :
              /\ last_seen[x] \in RunIndexes
              /\ text[last_seen[x] + 1] = x
              /\ \A j \in RunIndexes : text[j + 1] = x => j <= last_seen[x]
        /\ \A n \in 0..i :
              Distinct(Slice(text, i - n, n)) <= k <=> n <= len_
        /\ max_ >= len_

\* A character has been evicted: the run no longer starts at the beginning
\* of the text and a character before it is not a key any more.
LS_C28_Witness ==
    /\ lsPc = "loop"
    /\ k >= 1
    /\ i >= 1
    /\ len_ < i
    /\ \E j \in 0..(i - len_ - 1) : text[j + 1] \notin DOMAIN last_seen
    /\ max_ > len_

(***************************************************************************)
(* Properties of the likes counter                                         *)
(***************************************************************************)

\* The trigger() calls made less than Window seconds before time t.
RecentTriggers(t) == {n \in DOMAIN lkTimes : t - lkTimes[n] < Window}

\* C30: get_count() called at time t returns the number of trigger() calls
\* made less than 300 seconds before t, raises no error and leaves no entry
\* of 300 seconds or more in likes; a trigger() call adds exactly 1 to the
\* values of likes, at the key of its time.
LK_C30_CountsLikesOfTheWindow ==
    /\ lkPc \notin {"loaded", "idle", "trigger"} =>
          /\ lkPc = "returned"
          /\ lkRet = <<Cardinality(RecentTriggers(lkNow))>>
          /\ \A key \in DOMAIN likes : lkNow - key < Window
    /\ lkPc = "trigger" =>
          /\ lkNow \in DOMAIN likes
          /\ likes[lkNow] = Cardinality({n \in DOMAIN lkTimes : lkTimes[n] = lkNow})

====
